---- MODULE Spec2Model ----
(***************************************************************************)
(* GoGuestBook (src/main.go): the entry store, the six HTTP handlers and   *)
(* the notifications they send, as a state machine.                        *)
(*                                                                         *)
(* Go strings whose length or shape the code inspects (name, email,        *)
(* message) are sequences of characters; len() counts bytes, so every      *)
(* character carries its UTF-8 width.  Opaque strings (id, ip, code,       *)
(* comment) are TLA+ strings, "" being the empty Go string.                *)
(* Time is counted in ticks, TicksPerSecond of them to the second: the     *)
(* Go clock (time.Since) sees ticks, SQLite's CURRENT_TIMESTAMP seconds.   *)
(* In Spec and SpecSubmit requests are handled one after another: every    *)
(* handler is one action.  Spec runs all six handlers on plain             *)
(* submissions; SpecSubmit runs createEntry alone on every sample body,    *)
(* code and address.  In SpecModerateRace and SpecSubmitRace two requests  *)
(* are in flight at a time (net/http serves each in its own goroutine) and *)
(* a handler advances one store statement at a time; inflight holds what   *)
(* each goroutine has read so far and where it stands.                     *)
(* sendEmail's result and generateID's result are chosen freely.           *)
(***************************************************************************)
EXTENDS Integers, Sequences, FiniteSets, TLC

VARIABLES entries, now, sent, last, inflight

vars == <<entries, now, sent, last, inflight>>

(* ------------------------------ bounds ------------------------------- *)
TicksPerSecond == 2
MaxTime == 2

(* --------------------------- configuration --------------------------- *)
EntryWaitSeconds == 1
EntryWaitDuration == EntryWaitSeconds * TicksPerSecond
AntiSpamCode == "secret"
AdminEmail == "admin"
URL == "url"

(* ----------------------------- constants ----------------------------- *)
nameMinLen == 3
nameMaxLen == 100
emailMinLen == 6
emailMaxLen == 100
messageMinLen == 10
messageMaxLen == 2000
mailEntryApprovedSubject == "freigeschaltet"
mailEntryCommentSubject == "kommentiert"
mailAdminEntryAddedSubject == "Neuer Eintrag"
Subjects == {mailEntryApprovedSubject, mailEntryCommentSubject, mailAdminEntryAddedSubject}

StatusOK == 200
StatusCreated == 201
StatusNoContent == 204
StatusBadRequest == 400
StatusNotFound == 404
StatusTooManyRequests == 429
StatusInternalServerError == 500

(* ------------------------------ strings ------------------------------ *)
Lower == {"a","b","c","d","e","f","g","h","i","j","k","l","m",
          "n","o","p","q","r","s","t","u","v","w","x","y","z"}
Upper == {"A","B","C","D","E","F","G","H","I","J","K","L","M",
          "N","O","P","Q","R","S","T","U","V","W","X","Y","Z"}
Digit == {"0","1","2","3","4","5","6","7","8","9"}
\* a character outside ASCII: e with acute accent, two bytes in UTF-8
EAcute == "U+00E9"

\* the number of bytes of one character in UTF-8
ByteWidth(c) == IF c = EAcute THEN 2 ELSE 1

\* Go's len(s): the number of bytes of the string
GoLen(s) == Cardinality({p \in (DOMAIN s) \X (1..4) : p[2] <= ByteWidth(s[p[1]])})

\* the number of characters of the string
CharLen(s) == Len(s)

Repeat(c, n) == [i \in 1..n |-> c]

\* ^[a-zA-Z0-9._%+-]+@[a-zA-Z0-9.-]+\.[a-zA-Z]{2,}$
isValidEmail(email) ==
    LET LocalCls == Lower \cup Upper \cup Digit \cup {".", "_", "%", "+", "-"}
        DomainCls == Lower \cup Upper \cup Digit \cup {".", "-"}
        TldCls == Lower \cup Upper
        n == Len(email)
    IN \E at \in 2..n : \E dot \in (at + 2)..n :
          /\ \A i \in 1..(at - 1) : email[i] \in LocalCls
          /\ email[at] = "@"
          /\ \A i \in (at + 1)..(dot - 1) : email[i] \in DomainCls
          /\ email[dot] = "."
          /\ n - dot >= 2
          /\ \A i \in (dot + 1)..n : email[i] \in TldCls

\* TRUE when validateEntry returns nil
validateEntry(entry) ==
    /\ ~(GoLen(entry.name) < nameMinLen \/ GoLen(entry.name) > nameMaxLen)
    /\ ~(GoLen(entry.email) < emailMinLen \/ GoLen(entry.email) > emailMaxLen)
    /\ ~(GoLen(entry.message) < messageMinLen \/ GoLen(entry.message) > messageMaxLen)
    /\ isValidEmail(entry.email)

(* ------------------------------ inputs ------------------------------- *)
IDs == {"id1", "id2"}
IPs == {"ip1", "ip2"}
Codes == {AntiSpamCode, "wrong"}
\* the results of smtp.SendMail
MailErrs == {"nil", "smtp"}

GoodName == <<"a","b","c">>
GoodEmail == <<"a","@","b",".","d","e">>
GoodMessage == <<"0","1","2","3","4","5","6","7","8","9">>

\* a request body: json is FALSE when json.Decode fails on it
Body(n, e, m) == [json |-> TRUE, name |-> n, email |-> e, message |-> m,
                  id |-> "", approved |-> 0, comment |-> ""]

\* decoded request bodies of POST /api/entries
Bodies ==
    { \* id, approved and comment supplied by the client
      [Body(GoodName, GoodEmail, GoodMessage) EXCEPT !.id = "id1", !.approved = 1, !.comment = "thanks"],
      \* names: two bytes, two characters of two bytes each, 101 bytes
      Body(<<"a","b">>, GoodEmail, GoodMessage),
      Body(<<EAcute, EAcute>>, GoodEmail, GoodMessage),
      Body(Repeat("x", nameMaxLen + 1), GoodEmail, GoodMessage),
      \* emails: five bytes, no address shape, one-letter domain suffix, 101 bytes
      Body(GoodName, <<"a","@","b",".","d">>, GoodMessage),
      Body(GoodName, <<"a","b","c","d","e","f">>, GoodMessage),
      Body(GoodName, <<"a","b","@","c","d",".","e">>, GoodMessage),
      Body(GoodName, Repeat("a", emailMaxLen - 5) \o GoodEmail, GoodMessage),
      \* messages: nine bytes, 2001 bytes
      Body(GoodName, GoodEmail, SubSeq(GoodMessage, 1, 9)),
      Body(GoodName, GoodEmail, Repeat("m", messageMaxLen + 1)),
      \* not JSON
      [Body(<<>>, <<>>, <<>>) EXCEPT !.json = FALSE] }

\* validateEntry on every request body, evaluated once
Validated == [b \in Bodies |-> validateEntry(b)]

\* the bounds of the data model, in characters: name 3-100, email 6-100 and of
\* the shape local@domain.tld, message 10-2000
FieldsWithinBounds(b) ==
    /\ CharLen(b.name) >= 3 /\ CharLen(b.name) <= 100
    /\ CharLen(b.email) >= 6 /\ CharLen(b.email) <= 100
    /\ CharLen(b.message) >= 10 /\ CharLen(b.message) <= 2000
    /\ isValidEmail(b.email)

Within == [b \in Bodies |-> FieldsWithinBounds(b)]

(* ------------------------------- store ------------------------------- *)
\* type Entry struct, zero value
ZeroEntry == [id |-> "", name |-> <<>>, email |-> <<>>, message |-> <<>>,
              approved |-> 0, comment |-> "", ip |-> "", created_at |-> 0, code |-> ""]

\* json.Marshal of an Entry: IP carries the tag json:"-"
EncodeEntry(e) == [id |-> e.id, name |-> e.name, email |-> e.email, message |-> e.message,
                   approved |-> e.approved, comment |-> e.comment,
                   created_at |-> e.created_at, code |-> e.code]

\* SQLite's CURRENT_TIMESTAMP at tick t: whole seconds
CurrentTimestamp(t) == (t \div TicksPerSecond) * TicksPerSecond

\* SELECT created_at FROM entries WHERE ip = ? ORDER BY created_at DESC LIMIT 1
SelectLastCreatedAt(store, ip) ==
    LET rows == {i \in DOMAIN store : store[i].ip = ip}
    IN IF rows = {} THEN [err |-> "ErrNoRows", entry |-> ZeroEntry]
       ELSE LET top == CHOOSE i \in rows : \A j \in rows : store[j].created_at <= store[i].created_at
            IN [err |-> "nil", entry |-> [ZeroEntry EXCEPT !.created_at = store[top].created_at]]

\* faulty variant: <= for <
postLimitedInclusive(prevEntry, t) == t - prevEntry.created_at <= EntryWaitDuration

\* time.Since(prevEntry.CreatedAt) < config.EntryWaitDuration
postLimited(prevEntry, t) == t - prevEntry.created_at < EntryWaitDuration

\* the originating address: X-Forwarded-For, else the host of RemoteAddr
originIP(xff, remote) == IF xff = "" THEN remote ELSE xff

\* faulty variant: approved and comment are inserted from the decoded request
insertRowAsSupplied(entry, t) ==
    [id |-> entry.id, name |-> entry.name, email |-> entry.email, message |-> entry.message,
     ip |-> entry.ip, approved |-> entry.approved, comment |-> entry.comment,
     created_at |-> CurrentTimestamp(t)]

\* the row INSERT INTO entries (id, name, email, message, ip, comment) stores
insertRow(entry, t) ==
    [id |-> entry.id, name |-> entry.name, email |-> entry.email, message |-> entry.message,
     ip |-> entry.ip, approved |-> 0, comment |-> "", created_at |-> CurrentTimestamp(t)]

\* faulty variant: INSERT OR REPLACE, the row of a stored id is written over
InsertOrReplace(store, entry, t) ==
    [err |-> "nil",
     store |-> [i \in DOMAIN store \cup {entry.id} |->
                   IF i = entry.id THEN insertRow(entry, t) ELSE store[i]]]

\* INSERT: id is the PRIMARY KEY
Insert(store, entry, t) ==
    IF entry.id \in DOMAIN store THEN [err |-> "constraint", store |-> store]
    ELSE [err |-> "nil",
          store |-> [i \in DOMAIN store \cup {entry.id} |->
                        IF i = entry.id THEN insertRow(entry, t) ELSE store[i]]]

\* SELECT email, approved FROM entries WHERE id = ?
SelectEmailApproved(store, id) ==
    IF id \in DOMAIN store
    THEN [err |-> "nil", entry |-> [ZeroEntry EXCEPT !.email = store[id].email,
                                                       !.approved = store[id].approved]]
    ELSE [err |-> "ErrNoRows", entry |-> ZeroEntry]

\* SELECT email, comment FROM entries WHERE id = ?
SelectEmailComment(store, id) ==
    IF id \in DOMAIN store
    THEN [err |-> "nil", entry |-> [ZeroEntry EXCEPT !.email = store[id].email,
                                                       !.comment = store[id].comment]]
    ELSE [err |-> "ErrNoRows", entry |-> ZeroEntry]

\* SELECT * FROM entries WHERE id = ?
SelectAll(store, id) ==
    IF id \in DOMAIN store
    THEN [err |-> "nil", entry |-> [ZeroEntry EXCEPT !.id = store[id].id, !.name = store[id].name,
             !.email = store[id].email, !.message = store[id].message,
             !.approved = store[id].approved, !.comment = store[id].comment,
             !.ip = store[id].ip, !.created_at = store[id].created_at]]
    ELSE [err |-> "ErrNoRows", entry |-> ZeroEntry]

\* faulty variant: the UPDATE without its WHERE clause
UpdateApprovedEveryRow(store, id, v) ==
    IF id \in DOMAIN store
    THEN [rowsAffected |-> Cardinality(DOMAIN store),
          store |-> [i \in DOMAIN store |-> [store[i] EXCEPT !.approved = v]]]
    ELSE [rowsAffected |-> 0, store |-> store]

\* faulty variant: the UPDATE reports its row but the value is not written
UpdateApprovedNotWritten(store, id, v) ==
    IF id \in DOMAIN store
    THEN [rowsAffected |-> 1, store |-> store]
    ELSE [rowsAffected |-> 0, store |-> store]

\* UPDATE entries SET approved = v WHERE id = ?
UpdateApproved(store, id, v) ==
    IF id \in DOMAIN store
    THEN [rowsAffected |-> 1, store |-> [store EXCEPT ![id].approved = v]]
    ELSE [rowsAffected |-> 0, store |-> store]

\* faulty variant: a comment puts the entry back to pending
UpdateCommentResetsApproved(store, id, text) ==
    IF id \in DOMAIN store
    THEN [rowsAffected |-> 1, store |-> [store EXCEPT ![id].comment = text, ![id].approved = 0]]
    ELSE [rowsAffected |-> 0, store |-> store]

\* UPDATE entries SET comment = ? WHERE id = ?
UpdateComment(store, id, text) ==
    IF id \in DOMAIN store
    THEN [rowsAffected |-> 1, store |-> [store EXCEPT ![id].comment = text]]
    ELSE [rowsAffected |-> 0, store |-> store]

\* faulty variant: WHERE approved >= 0
approvedRowsOrPending(store) == {i \in DOMAIN store : store[i].approved >= 0}

\* the rows of SELECT ... FROM entries WHERE approved = 1
approvedRows(store) == {i \in DOMAIN store : store[i].approved = 1}

\* the columns SELECT name, message, approved, comment, created_at scans into an Entry
scanListed(row) == [ZeroEntry EXCEPT !.name = row.name, !.message = row.message,
                       !.approved = row.approved, !.comment = row.comment,
                       !.created_at = row.created_at]

(* ------------------------------- mail -------------------------------- *)
\* one call of sendEmail: err is smtp.SendMail's result
sendEmail(to, subject, body, err) == [to |-> to, subject |-> subject, body |-> body, err |-> err]

\* sent holds, by entry, the subjects sendEmail has been called with
recordMail(log, id, mail) ==
    IF mail = <<>> THEN log
    ELSE [log EXCEPT ![id] = @ \cup {mail[1].subject}]

\* faulty variant: the previous approval state is not looked at
approveNotifiesAlways(oldEntry) == oldEntry.email # <<>>

\* faulty variant: every entry that was not approved before is announced
approveNotifiesUnlessApproved(oldEntry) == oldEntry.email # <<>> /\ oldEntry.approved # 1

\* approveEntry's condition for the mail to the author
approveNotifies(oldEntry) == oldEntry.email # <<>> /\ oldEntry.approved = 0

\* addComment's condition for the mail to the author
commentNotifies(oldEntry) == oldEntry.email # <<>> /\ oldEntry.comment = ""

(* ------------------------------ requests ----------------------------- *)
Response(op, status, body, mail, req) ==
    [op |-> op, status |-> status, body |-> body, mail |-> mail, req |-> req]

\* the goroutines net/http serves requests in
Workers == {"w1", "w2"}

\* a goroutine that serves no request
Idle == [pc |-> "idle", op |-> "none", id |-> "", entry |-> ZeroEntry, status |-> 0, mail |-> <<>>]

Init ==
    /\ entries = [i \in {} |-> ZeroEntry]
    /\ now = 0
    /\ sent = [i \in IDs |-> {}]
    /\ last = Response("none", 0, [text |-> ""], <<>>, [id |-> ""])
    /\ inflight = [w \in Workers |-> Idle]

\* the clock advances
Tick ==
    /\ now < MaxTime
    /\ now' = now + 1
    /\ UNCHANGED <<entries, sent, last, inflight>>

\* the Entry json.Decode fills from the request body
decodeEntry(b, code) ==
    [ZeroEntry EXCEPT !.id = b.id, !.name = b.name, !.email = b.email, !.message = b.message,
                      !.approved = b.approved, !.comment = b.comment, !.code = code]

\* faulty variant: the fields are validated before the anti-spam code is compared
createEntryResultValidatesFirst(store, t, b, code, xff, remote, newID, mailErr) ==
    LET entry == decodeEntry(b, code)
        ip == originIP(xff, remote)
        prev == SelectLastCreatedAt(store, ip)
        ins == Insert(store, [entry EXCEPT !.id = newID, !.ip = ip], t)
        link == [url |-> URL, GgbEntryID |-> newID]
    IN IF ~b.json
       THEN [status |-> StatusBadRequest, body |-> [text |-> "decode"], store |-> store, mail |-> <<>>]
       ELSE IF ~Validated[b]
       THEN [status |-> StatusBadRequest, body |-> [error |-> "validation"], store |-> store, mail |-> <<>>]
       ELSE IF entry.code # AntiSpamCode
       THEN [status |-> StatusBadRequest, body |-> [error |-> "code"], store |-> store, mail |-> <<>>]
       ELSE IF prev.err = "nil" /\ postLimited(prev.entry, t)
       THEN [status |-> StatusTooManyRequests, body |-> [error |-> "postlimit"], store |-> store, mail |-> <<>>]
       ELSE IF ins.err # "nil"
       THEN [status |-> StatusInternalServerError, body |-> [text |-> ins.err], store |-> store, mail |-> <<>>]
       ELSE [status |-> StatusCreated, body |-> [success |-> TRUE], store |-> ins.store,
             mail |-> <<sendEmail(AdminEmail, mailAdminEntryAddedSubject, link, mailErr)>>]

\* faulty variant: the row is inserted before the fields are validated and the
\* wait time is looked at, so a submission answered validation or postlimit is
\* stored all the same
createEntryResultStoresRejected(store, t, b, code, xff, remote, newID, mailErr) ==
    LET entry == decodeEntry(b, code)
        ip == originIP(xff, remote)
        prev == SelectLastCreatedAt(store, ip)
        ins == Insert(store, [entry EXCEPT !.id = newID, !.ip = ip], t)
        link == [url |-> URL, GgbEntryID |-> newID]
    IN IF ~b.json
       THEN [status |-> StatusBadRequest, body |-> [text |-> "decode"], store |-> store, mail |-> <<>>]
       ELSE IF entry.code # AntiSpamCode
       THEN [status |-> StatusBadRequest, body |-> [error |-> "code"], store |-> store, mail |-> <<>>]
       ELSE IF ~Validated[b]
       THEN [status |-> StatusBadRequest, body |-> [error |-> "validation"], store |-> ins.store, mail |-> <<>>]
       ELSE IF prev.err = "nil" /\ postLimited(prev.entry, t)
       THEN [status |-> StatusTooManyRequests, body |-> [error |-> "postlimit"], store |-> ins.store, mail |-> <<>>]
       ELSE IF ins.err # "nil"
       THEN [status |-> StatusInternalServerError, body |-> [text |-> ins.err], store |-> store, mail |-> <<>>]
       ELSE [status |-> StatusCreated, body |-> [success |-> TRUE], store |-> ins.store,
             mail |-> <<sendEmail(AdminEmail, mailAdminEntryAddedSubject, link, mailErr)>>]

\* createEntry up to its response: the store, the response and the mail it sends
createEntryResult(store, t, b, code, xff, remote, newID, mailErr) ==
    LET entry == decodeEntry(b, code)
        ip == originIP(xff, remote)
        prev == SelectLastCreatedAt(store, ip)
        ins == Insert(store, [entry EXCEPT !.id = newID, !.ip = ip], t)
        link == [url |-> URL, GgbEntryID |-> newID]
    IN IF ~b.json
       THEN [status |-> StatusBadRequest, body |-> [text |-> "decode"], store |-> store, mail |-> <<>>]
       ELSE IF entry.code # AntiSpamCode
       THEN [status |-> StatusBadRequest, body |-> [error |-> "code"], store |-> store, mail |-> <<>>]
       ELSE IF ~Validated[b]
       THEN [status |-> StatusBadRequest, body |-> [error |-> "validation"], store |-> store, mail |-> <<>>]
       ELSE IF prev.err = "nil" /\ postLimited(prev.entry, t)
       THEN [status |-> StatusTooManyRequests, body |-> [error |-> "postlimit"], store |-> store, mail |-> <<>>]
       ELSE IF ins.err # "nil"
       THEN [status |-> StatusInternalServerError, body |-> [text |-> ins.err], store |-> store, mail |-> <<>>]
       ELSE [status |-> StatusCreated, body |-> [success |-> TRUE], store |-> ins.store,
             mail |-> <<sendEmail(AdminEmail, mailAdminEntryAddedSubject, link, mailErr)>>]

\* TRUE when createEntry returns before it calls generateID
createEntryEarly(store, t, b, code, xff, remote) ==
    createEntryResult(store, t, b, code, xff, remote, "", "nil").status
        \in {StatusBadRequest, StatusTooManyRequests}

\* what the model remembers of a POST /api/entries request
createRequest(b, code, xff, remote, newID) ==
    [id |-> "", generated |-> newID, decoded |-> b.json, codeOK |-> code = AntiSpamCode, ip |-> originIP(xff, remote),
     valid |-> Validated[b], within |-> Within[b],
     supplied |-> [id |-> b.id, approved |-> b.approved, comment |-> b.comment]]

\* POST /api/entries: newID is what generateID returns, mailErr what sendEmail returns
createEntry(b, code, xff, remote) ==
    \E newID \in IF createEntryEarly(entries, now, b, code, xff, remote) THEN {""} ELSE IDs :
    \E mailErr \in IF createEntryResult(entries, now, b, code, xff, remote, newID, "nil").mail = <<>>
                   THEN {"nil"} ELSE MailErrs :
       LET r == createEntryResult(entries, now, b, code, xff, remote, newID, mailErr)
       IN /\ entries' = r.store
          /\ sent' = recordMail(sent, newID, r.mail)
          /\ last' = Response("createEntry", r.status, r.body, r.mail,
                              createRequest(b, code, xff, remote, newID))
          /\ UNCHANGED <<now, inflight>>

\* faulty variant: a failed send is answered with a server error
approveEntryResultFailsWithMail(store, id, mailErr) ==
    LET old == SelectEmailApproved(store, id)
        upd == UpdateApproved(store, id, 1)
    IN IF old.err # "nil"
       THEN [status |-> StatusInternalServerError, body |-> [text |-> old.err], store |-> store, mail |-> <<>>]
       ELSE IF upd.rowsAffected = 0
       THEN [status |-> StatusNotFound, body |-> [text |-> "Entry not found"], store |-> upd.store, mail |-> <<>>]
       ELSE [status |-> IF approveNotifies(old.entry) /\ mailErr # "nil"
                        THEN StatusInternalServerError ELSE StatusNoContent,
             body |-> [text |-> ""], store |-> upd.store,
             mail |-> IF approveNotifies(old.entry)
                      THEN <<sendEmail(old.entry.email, mailEntryApprovedSubject, URL, mailErr)>>
                      ELSE <<>>]

\* approveEntry up to its response
approveEntryResult(store, id, mailErr) ==
    LET old == SelectEmailApproved(store, id)
        upd == UpdateApproved(store, id, 1)
    IN IF old.err # "nil"
       THEN [status |-> StatusInternalServerError, body |-> [text |-> old.err], store |-> store, mail |-> <<>>]
       ELSE IF upd.rowsAffected = 0
       THEN [status |-> StatusNotFound, body |-> [text |-> "Entry not found"], store |-> upd.store, mail |-> <<>>]
       ELSE [status |-> StatusNoContent, body |-> [text |-> ""], store |-> upd.store,
             mail |-> IF approveNotifies(old.entry)
                      THEN <<sendEmail(old.entry.email, mailEntryApprovedSubject, URL, mailErr)>>
                      ELSE <<>>]

\* POST /api/entries/{id}/approve
approveEntry(id) ==
    \E mailErr \in IF approveEntryResult(entries, id, "nil").mail = <<>> THEN {"nil"} ELSE MailErrs :
    LET r == approveEntryResult(entries, id, mailErr)
    IN /\ entries' = r.store
       /\ sent' = recordMail(sent, id, r.mail)
       /\ last' = Response("approveEntry", r.status, r.body, r.mail, [id |-> id])
       /\ UNCHANGED <<now, inflight>>

\* faulty variant: Reject tells the author, as Approve does
rejectEntryResultNotifies(store, id) ==
    LET old == SelectEmailApproved(store, id)
        upd == UpdateApproved(store, id, -1)
    IN IF upd.rowsAffected = 0
       THEN [status |-> StatusNotFound, body |-> [text |-> "Entry not found"], store |-> upd.store, mail |-> <<>>]
       ELSE [status |-> StatusNoContent, body |-> [text |-> ""], store |-> upd.store,
             mail |-> IF old.entry.email # <<>> /\ old.entry.approved = 1
                      THEN <<sendEmail(old.entry.email, mailEntryApprovedSubject, URL, "nil")>>
                      ELSE <<>>]

\* rejectEntry up to its response
rejectEntryResult(store, id) ==
    LET upd == UpdateApproved(store, id, -1)
    IN IF upd.rowsAffected = 0
       THEN [status |-> StatusNotFound, body |-> [text |-> "Entry not found"], store |-> upd.store, mail |-> <<>>]
       ELSE [status |-> StatusNoContent, body |-> [text |-> ""], store |-> upd.store, mail |-> <<>>]

\* POST /api/entries/{id}/reject
rejectEntry(id) ==
    LET r == rejectEntryResult(entries, id)
    IN /\ entries' = r.store
       /\ sent' = recordMail(sent, id, r.mail)
       /\ last' = Response("rejectEntry", r.status, r.body, r.mail, [id |-> id])
       /\ UNCHANGED <<now, inflight>>

\* addComment up to its response
addCommentResult(store, id, decodeOK, text, mailErr) ==
    LET old == SelectEmailComment(store, id)
        upd == UpdateComment(store, id, text)
    IN IF old.err # "nil"
       THEN [status |-> StatusInternalServerError, body |-> [text |-> old.err], store |-> store, mail |-> <<>>]
       ELSE IF ~decodeOK
       THEN [status |-> StatusBadRequest, body |-> [text |-> "decode"], store |-> store, mail |-> <<>>]
       ELSE IF upd.rowsAffected = 0
       THEN [status |-> StatusNotFound, body |-> [text |-> "Entry not found"], store |-> upd.store, mail |-> <<>>]
       ELSE [status |-> StatusNoContent, body |-> [text |-> ""], store |-> upd.store,
             mail |-> IF commentNotifies(old.entry)
                      THEN <<sendEmail(old.entry.email, mailEntryCommentSubject, URL, mailErr)>>
                      ELSE <<>>]

\* PUT /api/entries/{id}/comment
addComment(id, decodeOK, text) ==
    \E mailErr \in IF addCommentResult(entries, id, decodeOK, text, "nil").mail = <<>>
                   THEN {"nil"} ELSE MailErrs :
    LET r == addCommentResult(entries, id, decodeOK, text, mailErr)
    IN /\ entries' = r.store
       /\ sent' = recordMail(sent, id, r.mail)
       /\ last' = Response("addComment", r.status, r.body, r.mail,
                           [id |-> id, decoded |-> decodeOK, comment |-> text])
       /\ UNCHANGED <<now, inflight>>

\* GET /api/entries/{id}
getEntry(id) ==
    LET got == SelectAll(entries, id)
    IN /\ last' = IF got.err = "nil"
                  THEN Response("getEntry", StatusOK, [json |-> EncodeEntry(got.entry)], <<>>, [id |-> id])
                  ELSE Response("getEntry", StatusNotFound, [text |-> "Entry not found"], <<>>, [id |-> id])
       /\ UNCHANGED <<entries, now, sent, inflight>>

\* the orders ORDER BY created_at DESC allows for the rows ids
descOrders(store, ids) ==
    {o \in [1..Cardinality(ids) -> ids] :
        /\ \A i, j \in DOMAIN o : i # j => o[i] # o[j]
        /\ \A i, j \in DOMAIN o : i < j => store[o[i]].created_at >= store[o[j]].created_at}

\* GET /api/entries
getApprovedEntries ==
    \E o \in descOrders(entries, approvedRows(entries)) :
       /\ last' = Response("getApprovedEntries", StatusOK,
                           [json |-> [k \in DOMAIN o |-> EncodeEntry(scanListed(entries[o[k]]))]],
                           <<>>, [id |-> ""])
       /\ UNCHANGED <<entries, now, sent, inflight>>

\* X-Forwarded-For and the host of RemoteAddr
Origins == {<<"", "ip1">>, <<"", "ip2">>, <<"ip2", "ip1">>}
\* PUT /api/entries/{id}/comment bodies: decoded or not, and the comment
CommentBodies == {<<TRUE, "">>, <<TRUE, "thanks">>, <<FALSE, "">>}

\* the bodies of the moderation runs: one that is accepted, one that is not
PlainBodies == {b \in Bodies : b.name \in {GoodName, <<"a","b">>} /\ b.email = GoodEmail
                                /\ b.message = GoodMessage}

\* a visitor submits any of the sample requests from any of the sample addresses
Submit == \E b \in Bodies, c \in Codes, o \in Origins : createEntry(b, c, o[1], o[2])

\* a visitor submits one of the plain requests
SubmitPlain == \E b \in PlainBodies, c \in Codes, o \in Origins : createEntry(b, c, o[1], o[2])

\* the administrator follows a moderation link
Moderate ==
    \/ \E i \in IDs : approveEntry(i)
    \/ \E i \in IDs : rejectEntry(i)
    \/ \E i \in IDs, c \in CommentBodies : addComment(i, c[1], c[2])

\* anyone reads
Read ==
    \/ \E i \in IDs : getEntry(i)
    \/ getApprovedEntries

\* submission, moderation and reading, requests handled one after another
Next == Tick \/ SubmitPlain \/ Moderate \/ Read

Spec == Init /\ [][Next]_vars

\* submission alone, over all sample requests and addresses
NextSubmit == Tick \/ Submit

SpecSubmit == Init /\ [][NextSubmit]_vars

(* ------------------- requests served concurrently -------------------- *)
\* a goroutine inside a handler, between two of its statements
Running(pc, op, id, entry) ==
    [pc |-> pc, op |-> op, id |-> id, entry |-> entry, status |-> 0, mail |-> <<>>]

\* a goroutine whose handler has returned: the response and the mail it sent
Returned(op, id, entry, status, mail) ==
    [pc |-> "done", op |-> op, id |-> id, entry |-> entry, status |-> status, mail |-> mail]

\* the goroutine takes the next request
Free(w) == inflight[w].pc \in {"idle", "done"}

\* approveEntry, first statement: db.Get of the previous email and approved
approveRead(w, id) ==
    LET old == SelectEmailApproved(entries, id)
    IN /\ Free(w)
       /\ inflight' = [inflight EXCEPT ![w] =
                          IF old.err # "nil"
                          THEN Returned("approveEntry", id, old.entry, StatusInternalServerError, <<>>)
                          ELSE Running("update", "approveEntry", id, old.entry)]
       /\ UNCHANGED <<entries, now, sent, last>>

\* approveEntry, second statement: the UPDATE and its rowsAffected
approveUpdate(w) ==
    LET r == inflight[w]
        upd == UpdateApproved(entries, r.id, 1)
    IN /\ r.pc = "update"
       /\ r.op = "approveEntry"
       /\ entries' = upd.store
       /\ inflight' = [inflight EXCEPT ![w] =
                          IF upd.rowsAffected = 0
                          THEN Returned("approveEntry", r.id, r.entry, StatusNotFound, <<>>)
                          ELSE Running("notify", "approveEntry", r.id, r.entry)]
       /\ UNCHANGED <<now, sent, last>>

\* approveEntry, the rest: the mail to the author and the response
approveNotify(w) ==
    LET r == inflight[w]
    IN /\ r.pc = "notify"
       /\ r.op = "approveEntry"
       /\ \E mailErr \in IF approveNotifies(r.entry) THEN MailErrs ELSE {"nil"} :
            LET mail == IF approveNotifies(r.entry)
                        THEN <<sendEmail(r.entry.email, mailEntryApprovedSubject, URL, mailErr)>>
                        ELSE <<>>
            IN /\ sent' = recordMail(sent, r.id, mail)
               /\ inflight' = [inflight EXCEPT ![w] =
                                  Returned("approveEntry", r.id, r.entry, StatusNoContent, mail)]
       /\ UNCHANGED <<entries, now, last>>

\* rejectEntry: its one statement and the response
rejectExec(w, id) ==
    LET r == rejectEntryResult(entries, id)
    IN /\ Free(w)
       /\ entries' = r.store
       /\ sent' = recordMail(sent, id, r.mail)
       /\ inflight' = [inflight EXCEPT ![w] = Returned("rejectEntry", id, ZeroEntry, r.status, r.mail)]
       /\ UNCHANGED <<now, last>>

\* the submission the racing runs store
GoodBody == CHOOSE b \in PlainBodies : Validated[b]

\* a visitor's valid submission, handled at once
SubmitGood == \E o \in Origins : createEntry(GoodBody, AntiSpamCode, o[1], o[2])

\* Approve and Reject requests of the administrator, two in flight at a time
NextModerateRace ==
    \/ SubmitGood
    \/ \E w \in Workers, i \in IDs : approveRead(w, i)
    \/ \E w \in Workers : approveUpdate(w)
    \/ \E w \in Workers : approveNotify(w)
    \/ \E w \in Workers, i \in IDs : rejectExec(w, i)

SpecModerateRace == Init /\ [][NextModerateRace]_vars

\* createEntry up to the rate limit: decoding, code, validation, the address
\* and the SELECT of the address's last created_at
createCheck(w, b, code, xff, remote) ==
    LET r == createEntryResult(entries, now, b, code, xff, remote, "", "nil")
        entry == [decodeEntry(b, code) EXCEPT !.ip = originIP(xff, remote)]
    IN /\ Free(w)
       /\ inflight' = [inflight EXCEPT ![w] =
                          IF createEntryEarly(entries, now, b, code, xff, remote)
                          THEN Returned("createEntry", "", entry, r.status, <<>>)
                          ELSE Running("insert", "createEntry", "", entry)]
       /\ UNCHANGED <<entries, now, sent, last>>

\* createEntry, the rest: generateID, the INSERT, the mail to the administrator
\* and the response
createStore(w) ==
    LET r == inflight[w]
    IN /\ r.pc = "insert"
       /\ r.op = "createEntry"
       /\ \E newID \in IDs :
            LET ins == Insert(entries, [r.entry EXCEPT !.id = newID], now)
                link == [url |-> URL, GgbEntryID |-> newID]
            IN \E mailErr \in IF ins.err # "nil" THEN {"nil"} ELSE MailErrs :
                 LET mail == IF ins.err # "nil" THEN <<>>
                             ELSE <<sendEmail(AdminEmail, mailAdminEntryAddedSubject, link, mailErr)>>
                 IN /\ entries' = ins.store
                    /\ sent' = recordMail(sent, newID, mail)
                    /\ inflight' = [inflight EXCEPT ![w] =
                                       Returned("createEntry", newID, r.entry,
                                                IF ins.err # "nil" THEN StatusInternalServerError
                                                ELSE StatusCreated, mail)]
       /\ UNCHANGED <<now, last>>

\* submissions of visitors, two in flight at a time
NextSubmitRace ==
    \/ Tick
    \/ \E w \in Workers, b \in PlainBodies, c \in Codes, o \in Origins : createCheck(w, b, c, o[1], o[2])
    \/ \E w \in Workers : createStore(w)

SpecSubmitRace == Init /\ [][NextSubmitRace]_vars

(* ------------------------------ claims ------------------------------- *)
\* the request the last response answers named the entry i
On(r, i) == r.req.id = i

\* a mail with subject s was sent while the request of response r was handled
Mailed(r, s) == r.mail # <<>> /\ r.mail[1].subject = s

\* C1 as stated: the approved value of a stored entry changes only from 0 to 1,
\* by Approve, or from 0 to -1, by Reject; a decided entry keeps its value.
C1_ApprovedLeavesPendingOnly ==
    [][\A i \in DOMAIN entries :
          entries'[i].approved # entries[i].approved =>
             /\ entries[i].approved = 0
             /\ \/ last'.op = "approveEntry" /\ entries'[i].approved = 1
                \/ last'.op = "rejectEntry" /\ entries'[i].approved = -1]_vars

\* C1 as amended: the approved value of a stored entry changes only by an Approve
\* of that entry, to 1, or by a Reject of that entry, to -1, whatever its value
\* before (0, 1 or -1); no request sets it back to 0.
C1_ApprovedSetByApproveOrReject ==
    [][\A i \in DOMAIN entries :
          /\ i \in DOMAIN entries'
          /\ entries'[i].approved # entries[i].approved =>
                /\ On(last', i)
                /\ last'.status = StatusNoContent
                /\ \/ last'.op = "approveEntry" /\ entries'[i].approved = 1
                   \/ last'.op = "rejectEntry" /\ entries'[i].approved = -1]_vars

\* C1 witness: an entry the author was told is approved has been rejected
C1_Witness ==
    /\ last.op = "rejectEntry"
    /\ last.status = StatusNoContent
    /\ mailEntryApprovedSubject \in sent[last.req.id]
    /\ entries[last.req.id].approved = -1

\* a step that handles a request (the clock stands still)
Request == now' = now

\* C2: an Approve of a Pending entry with an email sends one approval mail to its
\* author, and once that mail has been sent no later Approve, Reject or Comment
\* of the entry sends another.
C2_ApprovalNotifiedOnce ==
    [][Request => \A i \in DOMAIN entries :
          /\ (last'.op = "approveEntry" /\ On(last', i)
                /\ entries[i].approved = 0 /\ entries[i].email # <<>>) =>
                /\ Len(last'.mail) = 1
                /\ last'.mail[1].to = entries[i].email
                /\ last'.mail[1].subject = mailEntryApprovedSubject
                /\ mailEntryApprovedSubject \in sent'[i]
          /\ (last'.op \in {"approveEntry", "rejectEntry", "addComment"} /\ On(last', i)
                /\ mailEntryApprovedSubject \in sent[i]) =>
                ~Mailed(last', mailEntryApprovedSubject)]_vars

\* C2 witness: an Approve of an entry whose author has been sent the approval
\* mail and a comment mail succeeds and sends nothing
C2_Witness ==
    /\ last.op = "approveEntry"
    /\ last.status = StatusNoContent
    /\ last.mail = <<>>
    /\ mailEntryApprovedSubject \in sent[last.req.id]
    /\ mailEntryCommentSubject \in sent[last.req.id]

\* C3 as stated: a Comment on an entry with an empty comment and an email, none
\* having been sent a comment mail before, sends one comment mail; a Comment on
\* an entry for which the comment mail has been sent sends none.
C3_CommentNotifiedOnce ==
    [][Request => \A i \in DOMAIN entries :
          (last'.op = "addComment" /\ On(last', i) /\ last'.req.decoded) =>
             IF mailEntryCommentSubject \in sent[i]
             THEN last'.mail = <<>>
             ELSE (entries[i].comment = "" /\ entries[i].email # <<>>) =>
                     /\ Len(last'.mail) = 1
                     /\ last'.mail[1].subject = mailEntryCommentSubject]_vars

\* C4 as stated: Approve, Reject and Comment of an id that is not stored answer
\* 404, send nothing and leave the store as it is.
C4_MissingIdNotFound ==
    [][(Request /\ last'.op \in {"approveEntry", "rejectEntry", "addComment"}
           /\ last'.req.id \notin DOMAIN entries) =>
          /\ last'.status = StatusNotFound
          /\ last'.mail = <<>>
          /\ entries' = entries
          /\ sent' = sent]_vars

\* C5: the list GET /api/entries answers holds one element for each stored entry
\* with approved = 1 and no other, and no element holds a stored id or an ip.
C5_ListIsApprovedRedacted ==
    last.op = "getApprovedEntries" =>
       LET res == last.body.json
           appr == {i \in DOMAIN entries : entries[i].approved = 1}
       IN /\ Len(res) = Cardinality(appr)
          /\ \E o \in [DOMAIN res -> appr] :
                /\ \A k, l \in DOMAIN res : k # l => o[k] # o[l]
                /\ \A k \in DOMAIN res :
                      /\ res[k].name = entries[o[k]].name
                      /\ res[k].message = entries[o[k]].message
                      /\ res[k].comment = entries[o[k]].comment
                      /\ res[k].created_at = entries[o[k]].created_at
                      /\ res[k].approved = 1
          /\ \A k \in DOMAIN res :
                /\ res[k].id \notin DOMAIN entries
                /\ "ip" \notin DOMAIN res[k]

\* C5 witness: a list of one entry while another entry is stored and not approved
C5_Witness ==
    /\ last.op = "getApprovedEntries"
    /\ Len(last.body.json) = 1
    /\ \E i \in DOMAIN entries : entries[i].approved = 0
    /\ \E i \in DOMAIN entries : entries[i].approved = 1

\* the last response answers a POST /api/entries whose body was decoded
Submitted(r) == r.op = "createEntry" /\ r.req.decoded

\* some stored entry from address ip was created less than the wait duration ago
RecentFrom(ip) ==
    \E i \in DOMAIN entries :
       entries[i].ip = ip /\ now - entries[i].created_at < EntryWaitDuration

\* C6: a Submit with an anti-spam code other than the configured one is answered
\* 400 with the error "code", stores nothing and sends nothing, whatever its
\* fields and whether or not its address is rate-limited.
C6_WrongCodeRejected ==
    [][(Request /\ Submitted(last') /\ ~last'.req.codeOK) =>
          /\ last'.status = StatusBadRequest
          /\ last'.body = [error |-> "code"]
          /\ last'.mail = <<>>
          /\ entries' = entries
          /\ sent' = sent]_vars

\* C6 witness: a wrong code with valid fields from a rate-limited address
C6_Witness ==
    /\ Submitted(last)
    /\ ~last.req.codeOK
    /\ last.req.valid /\ last.req.within
    /\ RecentFrom(last.req.ip)
    /\ last.body = [error |-> "code"]

\* C7 as stated: a Submit with the right code and a name, email or message
\* outside its bounds (in characters, or an email of another shape) is answered
\* 400 with the error "validation", stores nothing and sends nothing.
C7_OutOfBoundsRejected ==
    [][(Request /\ Submitted(last') /\ last'.req.codeOK /\ ~last'.req.within) =>
          /\ last'.status = StatusBadRequest
          /\ last'.body = [error |-> "validation"]
          /\ last'.mail = <<>>
          /\ entries' = entries
          /\ sent' = sent]_vars

\* C8 as stated: a Submit with the right code and valid fields is answered 429
\* "postlimit", storing nothing, exactly when a stored entry from its address is
\* younger than the wait duration; otherwise it succeeds.
C8_PostLimitIffRecent ==
    [][(Request /\ Submitted(last') /\ last'.req.codeOK /\ last'.req.valid) =>
          IF RecentFrom(last'.req.ip)
          THEN /\ last'.status = StatusTooManyRequests
               /\ last'.body = [error |-> "postlimit"]
               /\ entries' = entries
          ELSE /\ last'.status = StatusCreated
               /\ last'.req.generated \in DOMAIN entries' \ DOMAIN entries]_vars

\* C8 as amended: ... otherwise it succeeds, unless the generated id is the id of
\* a stored entry: then it is answered 500 and stores nothing.
C8_PostLimitIffRecentOrCollision ==
    [][(Request /\ Submitted(last') /\ last'.req.codeOK /\ last'.req.valid) =>
          IF RecentFrom(last'.req.ip)
          THEN /\ last'.status = StatusTooManyRequests
               /\ last'.body = [error |-> "postlimit"]
               /\ entries' = entries
          ELSE IF last'.req.generated \in DOMAIN entries
          THEN /\ last'.status = StatusInternalServerError
               /\ entries' = entries
          ELSE /\ last'.status = StatusCreated
               /\ last'.req.generated \in DOMAIN entries']_vars

\* C8 witness: a second entry from an address, stored when the first was exactly
\* the wait duration old, while the other id was free
C8_Witness ==
    /\ Submitted(last)
    /\ last.status = StatusCreated
    /\ \E i \in DOMAIN entries :
          /\ i # last.req.generated
          /\ entries[i].ip = last.req.ip
          /\ now - entries[i].created_at = EntryWaitDuration
          /\ entries[last.req.generated].created_at = now

\* C9: a Submit answered 201 has added one entry, under the generated id, with
\* approved = 0 and an empty comment whatever the request supplied, has left the
\* other entries as they were, has sent one mail, to the administrator, with the
\* link to the new id, and its response body is {"success": true}.
C9_SubmitStoresPendingEntry ==
    [][(Request /\ last'.op = "createEntry" /\ last'.status = StatusCreated) =>
          LET new == last'.req.generated
          IN /\ new \notin DOMAIN entries
             /\ DOMAIN entries' = DOMAIN entries \cup {new}
             /\ \A i \in DOMAIN entries : entries'[i] = entries[i]
             /\ entries'[new].id = new
             /\ entries'[new].approved = 0
             /\ entries'[new].comment = ""
             /\ entries'[new].ip = last'.req.ip
             /\ Len(last'.mail) = 1
             /\ last'.mail[1].to = AdminEmail
             /\ last'.mail[1].subject = mailAdminEntryAddedSubject
             /\ last'.mail[1].body.GgbEntryID = new
             /\ last'.body = [success |-> TRUE]]_vars

\* C9 witness: a stored entry whose request supplied another id, approved = 1 and
\* a comment
C9_Witness ==
    /\ last.op = "createEntry"
    /\ last.status = StatusCreated
    /\ last.req.supplied.id \notin {"", last.req.generated}
    /\ last.req.supplied.approved = 1
    /\ last.req.supplied.comment # ""
    /\ entries[last.req.generated].approved = 0

\* C10: when sendEmail fails, the request that called it is answered as if it
\* had not: Submit 201 with the entry stored, Approve 204 with approved = 1,
\* Comment 204 with the comment stored; and sendEmail was called once.
C10_MailFailureIgnored ==
    (last.mail # <<>> /\ last.mail[1].err # "nil") =>
       /\ Len(last.mail) = 1
       /\ last.op \in {"createEntry", "approveEntry", "addComment"}
       /\ last.op = "createEntry" =>
             /\ last.status = StatusCreated
             /\ last.body = [success |-> TRUE]
             /\ last.req.generated \in DOMAIN entries
       /\ last.op = "approveEntry" =>
             /\ last.status = StatusNoContent
             /\ entries[last.req.id].approved = 1
       /\ last.op = "addComment" =>
             /\ last.status = StatusNoContent
             /\ entries[last.req.id].comment = last.req.comment

\* C10 witness: an Approve whose mail to the author failed
C10_Witness ==
    /\ last.op = "approveEntry"
    /\ last.mail # <<>>
    /\ last.mail[1].err # "nil"
    /\ entries[last.req.id].approved = 1

\* C11: a Reject never sends a notification to anyone, whatever the entry's
\* approved value, comment and email were before: its response carries no mail
\* and the mails sent so far stay as they were, for every entry.
C11_RejectSendsNothing ==
    [][(Request /\ last'.op = "rejectEntry") =>
          /\ last'.mail = <<>>
          /\ sent' = sent]_vars

\* a Reject has just succeeded on an entry that was approved, with its author
\* told, and that carries a comment
C11_Witness ==
    /\ last.op = "rejectEntry"
    /\ last.status = StatusNoContent
    /\ \E i \in DOMAIN entries :
          /\ On(last, i)
          /\ entries[i].approved = -1
          /\ entries[i].email # <<>>
          /\ entries[i].comment # ""
          /\ mailEntryApprovedSubject \in sent[i]

\* the columns of a row no request is said to write after the INSERT
FixedColumns(e) == <<e.id, e.name, e.email, e.message, e.ip, e.created_at>>

\* C12: once an entry is stored it is never removed, and its id, name, email,
\* message, ip and created_at never change: every step (Approve, Reject,
\* Comment, GetByID, ListApproved, every later Submit) keeps every stored entry
\* stored and leaves those six fields of it as they were.
C12_StoredEntryKeepsFixedColumns ==
    [][\A i \in DOMAIN entries :
          /\ i \in DOMAIN entries'
          /\ FixedColumns(entries'[i]) = FixedColumns(entries[i])]_vars

\* a later Submit has just been stored next to an entry that has since been
\* decided, commented and is older than the new one
C12_Witness ==
    /\ last.op = "createEntry"
    /\ last.status = StatusCreated
    /\ \E i \in DOMAIN entries :
          /\ i # last.req.generated
          /\ entries[i].approved # 0
          /\ entries[i].comment # ""
          /\ entries[i].id = i
          /\ entries[i].created_at < entries[last.req.generated].created_at

\* C14: a Reject of an Approved entry is answered 204 and sets approved to -1,
\* an Approve of a Rejected entry is answered 204 and sets approved to 1, and
\* neither sends a mail; so an entry rejected first and approved later is
\* listed while no approval mail has ever been sent for it.
C14_DecisionOverwrittenSilently ==
    [][\A i \in DOMAIN entries :
          /\ (Request /\ last'.op = "rejectEntry" /\ On(last', i) /\ entries[i].approved = 1) =>
                /\ last'.status = StatusNoContent
                /\ entries'[i].approved = -1
                /\ last'.mail = <<>>
                /\ sent' = sent
          /\ (Request /\ last'.op = "approveEntry" /\ On(last', i) /\ entries[i].approved = -1) =>
                /\ last'.status = StatusNoContent
                /\ entries'[i].approved = 1
                /\ last'.mail = <<>>
                /\ sent' = sent]_vars

\* the public list shows an entry with an author address for which no approval
\* mail was ever sent: it was rejected first and approved later; another
\* entry, approved with a mail, has been rejected since and is not listed
C14_Witness ==
    /\ last.op = "getApprovedEntries"
    /\ Len(last.body.json) = 1
    /\ \E i \in DOMAIN entries :
          /\ entries[i].approved = 1
          /\ entries[i].email # <<>>
          /\ mailEntryApprovedSubject \notin sent[i]
          /\ \E j \in DOMAIN entries : entries[j].approved = -1 /\ mailEntryApprovedSubject \in sent[j]

\* C15: no two stored entries share an id: every row is stored under its own
\* id, and a Submit whose generated id is the id of a stored entry fails on
\* the insert, is answered 500, leaves the stored entries as they were and
\* sends no admin mail.
C15_IdCollisionFails ==
    [][/\ \A i \in DOMAIN entries' : entries'[i].id = i
       /\ (Request /\ Submitted(last') /\ last'.req.generated \in DOMAIN entries) =>
             /\ last'.status = StatusInternalServerError
             /\ entries' = entries
             /\ last'.mail = <<>>
             /\ sent' = sent]_vars

\* a Submit from another address than the stored entry's has just drawn the
\* stored entry's id and was answered 500
C15_Witness ==
    /\ last.op = "createEntry"
    /\ last.status = StatusInternalServerError
    /\ last.req.generated \in DOMAIN entries
    /\ entries[last.req.generated].ip # last.req.ip
    /\ mailAdminEntryAddedSubject \in sent[last.req.generated]

\* C16: comment and approval state are independent: a Comment changes no
\* entry's approved value and, with a decodable body, is answered 204 on a
\* stored entry whatever its approved value (0, 1 or -1) and stores its text;
\* an Approve or a Reject changes no entry's comment.
C16_CommentAndApprovalIndependent ==
    [][/\ (Request /\ last'.op = "addComment") =>
             /\ \A i \in DOMAIN entries : entries'[i].approved = entries[i].approved
             /\ \A i \in DOMAIN entries :
                   (On(last', i) /\ last'.req.decoded) =>
                       /\ last'.status = StatusNoContent
                       /\ entries'[i].comment = last'.req.comment
       /\ (Request /\ last'.op \in {"approveEntry", "rejectEntry"}) =>
             \A i \in DOMAIN entries : entries'[i].comment = entries[i].comment]_vars

\* a non-empty Comment has just succeeded on a Rejected entry while the other
\* entry is Approved and carries a comment too
C16_Witness ==
    /\ last.op = "addComment"
    /\ last.status = StatusNoContent
    /\ last.req.comment # ""
    /\ \E i, j \in DOMAIN entries :
          /\ On(last, i)
          /\ entries[i].approved = -1
          /\ entries[i].comment = last.req.comment
          /\ j # i
          /\ entries[j].approved = 1
          /\ entries[j].comment # ""

\* the created_at values stored for the address ip
StoredAt(store, ip) == {store[i].created_at : i \in {j \in DOMAIN store : store[j].ip = ip}}

\* C18: a Submit answered code, validation or postlimit neither starts nor
\* extends the wait window of any address: the created_at values stored for
\* every address stay as they were; and a Submit with the right code and valid
\* fields is answered postlimit exactly when the latest created_at stored for
\* its address is less than the wait duration ago.
C18_FailedSubmitLeavesWindow ==
    [][(Request /\ Submitted(last')) =>
          /\ last'.status \in {StatusBadRequest, StatusTooManyRequests} =>
                \A ip \in IPs : StoredAt(entries', ip) = StoredAt(entries, ip)
          /\ (last'.req.codeOK /\ last'.req.valid) =>
                (last'.status = StatusTooManyRequests <=>
                    /\ StoredAt(entries, last'.req.ip) # {}
                    /\ \E t \in StoredAt(entries, last'.req.ip) :
                          /\ \A u \in StoredAt(entries, last'.req.ip) : u <= t
                          /\ now - t < EntryWaitDuration)]_vars

\* a Submit has just been answered postlimit, later than the one entry stored
\* for its address was stored, and that entry is all the store holds for it
C18_Witness ==
    /\ last.op = "createEntry"
    /\ last.status = StatusTooManyRequests
    /\ StoredAt(entries, last.req.ip) = {0}
    /\ now > 0

\* goroutine w takes the step of approveEntry that leaves pc at from and
\* arrives at to
ApproveStep(w, from, to) ==
    /\ inflight[w].op = "approveEntry"
    /\ inflight[w].pc = from
    /\ inflight'[w].pc = to

\* goroutine w starts an Approve and gets past its read
ApproveReads(w) ==
    /\ Free(w)
    /\ inflight'[w].op = "approveEntry"
    /\ inflight'[w].pc = "update"

\* C13: Approve reads the previous approved value and updates it in two
\* separate store steps: the read writes nothing and keeps the value it saw,
\* the update comes as a later step, and whether the author is mailed is
\* decided on the value read (approved = 0, email not empty), not on the value
\* stored by then.  So two Approves of one Pending entry can both read 0 and
\* both send the approval mail (C13_Witness).
C13_ApproveDecidesOnValueRead ==
    [][\A w \in Workers :
          /\ ApproveReads(w) =>
                /\ entries' = entries
                /\ inflight'[w].entry.approved = entries[inflight'[w].id].approved
          /\ ApproveStep(w, "update", "notify") =>
                /\ entries'[inflight[w].id].approved = 1
                /\ inflight'[w].entry = inflight[w].entry
          /\ ApproveStep(w, "notify", "done") =>
                (inflight'[w].mail # <<>> <=>
                    inflight[w].entry.approved = 0 /\ inflight[w].entry.email # <<>>)]_vars

\* two Approves of the same entry have both read approved = 0 and both sent
\* the approval mail to the author
C13_Witness ==
    \E i \in DOMAIN entries :
       /\ entries[i].approved = 1
       /\ \A w \in Workers :
             /\ inflight[w] = Returned("approveEntry", i, inflight[w].entry, StatusNoContent, inflight[w].mail)
             /\ inflight[w].entry.approved = 0
             /\ inflight[w].mail # <<>>
             /\ inflight[w].mail[1].subject = mailEntryApprovedSubject
             /\ inflight[w].mail[1].to = entries[i].email

\* C17 as stated: whenever an approval mail is sent for an entry, the store
\* holds approved = 1 for that entry at that moment, under any interleaving of
\* Approve and Reject requests on the same id.
C17_NotifiedWhileApproved ==
    [][\A w \in Workers :
          (ApproveStep(w, "notify", "done") /\ inflight'[w].mail # <<>>) =>
              entries[inflight[w].id].approved = 1]_vars

\* C17 as amended: the Approve that sends the approval mail has run its
\* update before, and the update matched the row and set approved to 1; an
\* Approve whose update matches no row sends nothing; when the mail is sent
\* the entry is stored and no longer pending: approved is 1, or -1 when a
\* Reject of the same id came between the update and the mail.
C17_NotifiedAfterOwnUpdate ==
    [][\A w \in Workers :
          /\ ApproveStep(w, "update", "notify") =>
                /\ inflight[w].id \in DOMAIN entries
                /\ entries'[inflight[w].id].approved = 1
          /\ ApproveStep(w, "update", "done") =>
                /\ inflight'[w].mail = <<>>
                /\ sent' = sent
          /\ (ApproveStep(w, "notify", "done") /\ inflight'[w].mail # <<>>) =>
                /\ inflight[w].id \in DOMAIN entries
                /\ entries[inflight[w].id].approved \in {1, -1}]_vars

\* an Approve has sent the approval mail for an entry that a Reject, served by
\* the other goroutine, has set to -1
C17_Witness ==
    \E w, v \in Workers :
       /\ inflight[w].pc = "done"
       /\ inflight[w].op = "approveEntry"
       /\ inflight[w].mail # <<>>
       /\ inflight[v] = Returned("rejectEntry", inflight[w].id, ZeroEntry, StatusNoContent, <<>>)
       /\ entries[inflight[w].id].approved = -1

\* C19: under any interleaving of concurrent Submits, no two stored entries
\* with the same ip have created_at values less than the wait duration apart.
C19_WaitEnforcedUnderRace ==
    \A i, j \in DOMAIN entries :
       (i # j /\ entries[i].ip = entries[j].ip) =>
           \/ entries[i].created_at - entries[j].created_at >= EntryWaitDuration
           \/ entries[j].created_at - entries[i].created_at >= EntryWaitDuration
====
